---------------------------- MODULE Spec2Model ----------------------------
(***************************************************************************)
(* Model of the PAL/NES composite encoder of src/pal_nes.c:                *)
(* square_sample, setup_field and pal_modulate, together with the caller   *)
(* operations on the PAL_CRT / PAL_SETTINGS pair that the encoder's        *)
(* one-shot field_initialized latch depends on.                            *)
(*                                                                         *)
(* pal_core.h (field geometry, voltage levels) and pal_sincos14 are not    *)
(* part of src/.  The voltage levels and the integer sine follow the       *)
(* library's conventions; the field geometry is a reduced field that       *)
(* keeps the structure the code relies on: ten vertical-interval lines,    *)
(* one pre-render line, twelve active lines (every n % 12 and n % 6),      *)
(* one post-render line, and on each line the windows in the order         *)
(* front porch < sync < breezeway < burst < active video <= line end.      *)
(***************************************************************************)
EXTENDS Integers, Sequences, FiniteSets, TLC

(***************************************************************************)
(* Field geometry and voltage levels (pal_core.h).                         *)
(***************************************************************************)
PAL_CB_FREQ == 4
PAL_HRES == 64
PAL_VRES == 24
PAL_TOP == 11
PAL_BOT == 23
PAL_LINES == PAL_BOT - PAL_TOP
LINE_BEG == 0
SYNC_BEG == 2
BW_BEG == 6
CB_BEG == 7
CB_CYCLES == 2
AV_BEG == 18
AV_LEN == 40

WHITE_LEVEL == 100
BURST_LEVEL == 20
BLACK_LEVEL == 0
BLANK_LEVEL == 0
SYNC_LEVEL == -37

\* pal_reset: the default black_point / white_point of a PAL_CRT
DefaultBlackPoint == 0
DefaultWhitePoint == 100

(***************************************************************************)
(* Bounds of the model.                                                    *)
(***************************************************************************)
MaxCalls == 2       \* pal_modulate calls per behaviour
MaxPhase == 23      \* phases 0..MaxPhase given to square_sample on its own
MaxCode == 511      \* pixel codes are 9-bit
MaxHue == 359       \* hue offsets 0..MaxHue, in degrees

(***************************************************************************)
(* C integer arithmetic.                                                   *)
(***************************************************************************)
\* a / b of C for b > 0: truncation toward zero
CDiv(a, b) == IF a >= 0 THEN a \div b ELSE -((-a) \div b)

\* a >> k of C on a signed int: arithmetic shift
Sar(a, k) == a \div (2 ^ k)

\* conversion of an int to signed char on store
ToInt8(v) == ((v + 128) % 256) - 128

RECURSIVE BitAnd(_, _)
BitAnd(a, b) ==
    IF a = 0 \/ b = 0 THEN 0
    ELSE 2 * BitAnd(a \div 2, b \div 2) + (IF a % 2 = 1 /\ b % 2 = 1 THEN 1 ELSE 0)

(***************************************************************************)
(* square_sample                                                           *)
(***************************************************************************)
IRE == << -12042, 0,     34406,  81427,
          -17203, -8028, 19497,  57342,
           43581, 75693, 112965, 112965,
           26951, 52181, 83721,  83721 >>

\* 0300, 0200, 0600, 0400, 0500, 0100
active == << 192, 128, 384, 256, 320, 64 >>

IsBlackHue_hi(hue) == hue > 14
\* if (hue >= 0x0e) return 0;
IsBlackHue(hue) == hue >= 14

LumaPolarity_swapped(hue, v) ==
    CASE hue = 0  -> 0
      [] hue = 13 -> 1
      [] OTHER    -> v
\* switch (hue) { case 0x00: l = 1; case 0x0d: l = 0; default: l = v; }
LumaPolarity(hue, v) ==
    CASE hue = 0  -> 1
      [] hue = 13 -> 0
      [] OTHER    -> v

square_sample(p, phase) ==
    LET hue == BitAnd(p, 15)
    IN  IF IsBlackHue(hue) THEN 0
        ELSE LET v == IF ((hue + phase) % 12) < 6 THEN 1 ELSE 0
                 e == IF BitAnd(BitAnd(p, 448), active[(Sar(phase, 1) % 6) + 1]) > 0
                      THEN 1 ELSE 0
                 l == LumaPolarity(hue, v)
             IN  IRE[(l * 8 + e * 4 + BitAnd(Sar(p, 4), 3)) + 1]

(***************************************************************************)
(* pal_sincos14 (pal_core.c): 14-bit angle, 15-bit amplitude, table of     *)
(* sin(i * pi / 32) with linear interpolation.                             *)
(***************************************************************************)
T14_2PI == 16384

sigpsin15 == << 0, 3208, 6392, 9512, 12536, 15440, 18200, 20784, 23168,
                25328, 27240, 28896, 30272, 31352, 32136, 32608, 32768, 32608 >>

sintabil8(n) ==
    LET f == n % 256
        i == (n \div 256) % 256
        a == sigpsin15[i + 1]
        b == sigpsin15[i + 2]
    IN  a + Sar((b - a) * f, 8)

\* the sine that pal_sincos14 stores through its first argument
pal_sin14(ang) ==
    LET n == ang % T14_2PI
        hh == n % (T14_2PI \div 2)
        s == IF hh > (T14_2PI \div 4) - 1
             THEN sintabil8((T14_2PI \div 2) - hh)
             ELSE sintabil8(hh)
    IN  IF n > (T14_2PI \div 2) - 1 THEN -s ELSE s

(***************************************************************************)
(* State.                                                                  *)
(***************************************************************************)
VARIABLES
    analog, ccf, cc_period, black_point, white_point,  \* struct PAL_CRT
    w, h, data, hue, field_initialized,                \* struct PAL_SETTINGS
    pc, y, iccf,                                       \* pal_modulate: position, locals
    calls, setup_runs, ran_setup, entry_flag,          \* history of the calls
    entry_analog, fresh, same_call, ever_reset,
    misuse, stale, src_idx,
    sp, sphase, sres                                   \* square_sample on its own

vars == << analog, ccf, cc_period, black_point, white_point,
           w, h, data, hue, field_initialized, pc, y, iccf,
           calls, setup_runs, ran_setup, entry_flag, entry_analog, fresh,
           same_call, ever_reset, misuse, stale, src_idx, sp, sphase, sres >>

\* analog[n][t] is v->analog[n * PAL_HRES + t]
Lines == 0 .. (PAL_VRES - 1)
Cols == 0 .. (PAL_HRES - 1)
\* a never-assigned int is << >>, an assigned one << value >>
Undef == << >>


(***************************************************************************)
(* Caller side: the frames handed to the encoder.  A frame is a source     *)
(* width and height, a row-major buffer of pixel codes and a hue offset.   *)
(***************************************************************************)
SourceData(pat, n) ==
    [i \in 0 .. (n - 1) |->
        CASE pat = 0 -> 0
          [] pat = 1 -> (i * 37 + 5) % (MaxCode + 1)
          [] OTHER   -> (i * 73 + 300) % (MaxCode + 1)]

Frame(ww, hh, pat, hu) == [w |-> ww, h |-> hh, data |-> SourceData(pat, ww * hh), hue |-> hu]

\* the frames of the main specification
Frames ==
    { Frame(4, 3, 0, 0), Frame(4, 3, 1, 0), Frame(45, 13, 1, 33), Frame(7, 30, 2, 0) }

\* one uniform 1 x 1 frame per pixel code, and one frame per hue offset
RangeFrames ==
    { [w |-> 1, h |-> 1, data |-> [i \in {0} |-> p], hue |-> 0] : p \in 0 .. MaxCode }
    \cup
    { [w |-> 1, h |-> 1, data |-> [i \in {0} |-> 0], hue |-> k] : k \in 0 .. MaxHue }

\* what a read outside the source buffer may return
JunkCodes == {0, MaxCode}
\* what a read of a never-assigned iccf entry may return
JunkSamples == {0, -1}

(***************************************************************************)
(* setup_field                                                             *)
(***************************************************************************)
LineCategory_late(n) ==
    IF n <= 4 \/ (n >= 7 /\ n <= 9) THEN "equalizing"
    ELSE IF n >= 4 /\ n <= 6 THEN "vsync"
    ELSE "video"
\* the branch of setup_field taken for line n
LineCategory(n) ==
    IF n <= 3 \/ (n >= 7 /\ n <= 9) THEN "equalizing"
    ELSE IF n >= 4 /\ n <= 6 THEN "vsync"
    ELSE "video"

\* the value the chain of while loops leaves in line[t]; old where none writes
FieldLevel(n, t, old) ==
    IF t < LINE_BEG THEN old
    ELSE CASE LineCategory(n) = "equalizing" ->
                IF t < (4 * PAL_HRES) \div 100 THEN SYNC_LEVEL
                ELSE IF t < (50 * PAL_HRES) \div 100 THEN BLANK_LEVEL
                ELSE IF t < (54 * PAL_HRES) \div 100 THEN SYNC_LEVEL
                ELSE IF t < (100 * PAL_HRES) \div 100 THEN BLANK_LEVEL
                ELSE old
           [] LineCategory(n) = "vsync" ->
                IF t < (46 * PAL_HRES) \div 100 THEN SYNC_LEVEL
                ELSE IF t < (50 * PAL_HRES) \div 100 THEN BLANK_LEVEL
                ELSE IF t < (96 * PAL_HRES) \div 100 THEN SYNC_LEVEL
                ELSE IF t < (100 * PAL_HRES) \div 100 THEN BLANK_LEVEL
                ELSE old
           [] OTHER ->
                IF t < SYNC_BEG THEN BLANK_LEVEL
                ELSE IF t < BW_BEG THEN SYNC_LEVEL
                ELSE IF t < PAL_HRES THEN BLANK_LEVEL
                ELSE old

setup_field(a) ==
    [n \in Lines |-> [t \in Cols |-> ToInt8(FieldLevel(n, t, a[n][t]))]]

(***************************************************************************)
(* pal_modulate                                                            *)
(***************************************************************************)
destw == AV_LEN
desth == PAL_LINES
\* xo = AV_BEG; xo = (xo & ~3);
xo == AV_BEG - (AV_BEG % 4)
yo == PAL_TOP
CB_END == CB_BEG + (CB_CYCLES * PAL_CB_FREQ)

NeedSetup_always(flag) == TRUE
NeedSetup_inverted(flag) == flag # 0
\* if (!s->field_initialized)
NeedSetup(flag) == flag = 0

bsign(g) == IF g % 2 = 1 THEN -1 ELSE 1

\* ccburst[g][q], the swinging burst of phase group g and quadrant q
ccburst(g, q, hu) ==
    LET n == g * (360 \div 6) + hu + q * 90 + 135
    IN  Sar(pal_sin14(CDiv((n + bsign(g) * 60) * 8192, 180)), 10)

\* (BLANK_LEVEL + (cb * BURST_LEVEL)) >> 5
BurstSample(cb) == Sar(BLANK_LEVEL + (cb * BURST_LEVEL), 5)

Store_add(old, val) == ToInt8(old + val)
\* line[t] = val: a store into a signed char cell that held old
Store(old, val) == ToInt8(val)

SourceRow_round(yy, hh, dh) ==
    LET sy == CDiv(yy * hh + dh \div 2, dh)
    IN  IF sy >= hh THEN hh ELSE IF sy < 0 THEN 0 ELSE sy
\* sy = (y * s->h) / desth, clamped
SourceRow(yy, hh, dh) ==
    LET sy == CDiv(yy * hh, dh)
    IN  IF sy >= hh THEN hh ELSE IF sy < 0 THEN 0 ELSE sy

\* ((x * s->w) / destw) + sy, with sy already multiplied by s->w
SourceIndex(x, ww, dw, syw) == CDiv(x * ww, dw) + syw

\* phase = (n % 12) * 2; phase += bsign[n % 6] == 1 ? 6 : 0;
LinePhase(n) == (n % 12) * 2 + (IF bsign(n % 6) = 1 THEN 6 ELSE 0)

ActiveSample_shift(p, phase, bp, wp) ==
    LET ire == BLACK_LEVEL + bp
               + square_sample(p, phase) + square_sample(p, phase + 1)
               + square_sample(p, phase + 2) + square_sample(p, phase + 3)
    IN  Sar(CDiv(ire * wp, 110), 11)
\* the ire of one destination column before it is stored
ActiveSample(p, phase, bp, wp) ==
    LET ire == BLACK_LEVEL + bp
               + square_sample(p, phase) + square_sample(p, phase + 1)
               + square_sample(p, phase + 2) + square_sample(p, phase + 3)
    IN  Sar(CDiv(ire * wp, 110), 12)

CcfEntry_short(v) == v * 64
\* v->ccf[n][x] = iccf[n][x] << 7
CcfEntry(v) == v * 128

\* s->data[idx]
Fetch(idx, junk) == IF idx \in DOMAIN data THEN data[idx] ELSE junk


(***************************************************************************)
(* Initial states: a PAL_CRT after pal_init (all zero, default black and   *)
(* white points) and a PAL_SETTINGS with field_initialized clear.          *)
(***************************************************************************)
ZeroField == [n \in Lines |-> [t \in Cols |-> 0]]

InitWith(F, P, Q) ==
    /\ analog = ZeroField
    /\ ccf = [g \in 0 .. 5 |-> [q \in 0 .. 3 |-> 0]]
    /\ cc_period = 0
    /\ black_point = DefaultBlackPoint
    /\ white_point = DefaultWhitePoint
    /\ \E f \in F : /\ w = f.w
                    /\ h = f.h
                    /\ data = f.data
                    /\ hue = f.hue
    /\ field_initialized = 0
    /\ pc = "idle"
    /\ y = 0
    /\ iccf = [g \in 0 .. 5 |-> [q \in 0 .. 3 |-> Undef]]
    /\ calls = 0
    /\ setup_runs = 0
    /\ ran_setup = FALSE
    /\ entry_flag = 0
    /\ entry_analog = ZeroField
    /\ fresh = FALSE
    /\ same_call = FALSE
    /\ ever_reset = FALSE
    /\ misuse = FALSE
    /\ stale = FALSE
    /\ src_idx = [x \in 0 .. (destw - 1) |-> 0]
    /\ sp \in P
    /\ sphase \in Q
    /\ sres = Undef

Init == InitWith(Frames, {0}, {0})

crt_vars == << analog, ccf, cc_period, black_point, white_point >>
frame_vars == << w, h, data, hue >>
local_vars == << pc, y, iccf, src_idx >>
sample_vars == << sp, sphase, sres >>

(***************************************************************************)
(* pal_modulate, in three kinds of step: entry (lines 114-133), one        *)
(* active line (lines 135-172), exit (lines 174-179).                      *)
(***************************************************************************)
Begin ==
    /\ pc = "idle"
    /\ calls < MaxCalls
    /\ analog' = IF NeedSetup(field_initialized) THEN setup_field(analog) ELSE analog
    /\ field_initialized' = IF NeedSetup(field_initialized) THEN 1 ELSE field_initialized
    /\ pc' = "lines"
    /\ y' = 0
    /\ iccf' = [g \in 0 .. 5 |-> [q \in 0 .. 3 |-> Undef]]
    /\ calls' = calls + 1
    /\ setup_runs' = IF NeedSetup(field_initialized) THEN setup_runs + 1 ELSE setup_runs
    /\ ran_setup' = NeedSetup(field_initialized)
    /\ entry_flag' = field_initialized
    /\ entry_analog' = analog
    /\ same_call' = fresh
    /\ fresh' = FALSE
    /\ stale' = IF NeedSetup(field_initialized) THEN FALSE ELSE stale
    /\ UNCHANGED << ccf, cc_period, black_point, white_point, frame_vars,
                    ever_reset, misuse, src_idx, sample_vars >>

\* the rows below line n that the writes of one active line can reach
Spill == ((IF xo + destw > CB_END THEN xo + destw ELSE CB_END) - 1) \div PAL_HRES

\* one cell, d samples after the start of active line yy, through the three
\* loops of that line: its value after the burst loop and after the video loop
ComposeCell(old, d, yy, junk) ==
    LET n == yy + yo
        c1 == IF d \in BW_BEG .. (CB_BEG - 1) THEN Store(old, SYNC_LEVEL) ELSE old
        c2 == IF d \in CB_BEG .. (CB_END - 1)
              THEN Store(c1, BurstSample(ccburst(n % 6, d % 4, hue)))
              ELSE c1
        x == d - xo
        c3 == IF x \in 0 .. (destw - 1)
              THEN Store(c2,
                         ActiveSample(
                             Fetch(SourceIndex(x, w, destw, SourceRow(yy, h, desth) * w),
                                   junk),
                             LinePhase(n) + 3 * x, black_point, white_point))
              ELSE c2
    IN  [burst |-> c2, video |-> c3]

\* the field after line yy of the active range has been composed
ComposeLine(a, yy, junk) ==
    LET n == yy + yo
    IN  [m \in Lines |->
           IF m >= n /\ m <= n + Spill
           THEN [t \in Cols |->
                   ComposeCell(a[m][t], (m - n) * PAL_HRES + t, yy, junk).video]
           ELSE a[m]]

\* does line yy read outside the source buffer
ReadsOutside(yy) ==
    \E x \in 0 .. (destw - 1) :
        SourceIndex(x, w, destw, SourceRow(yy, h, desth) * w) \notin DOMAIN data

Line ==
    /\ pc = "lines"
    /\ \E junk \in (IF ReadsOutside(y) THEN JunkCodes ELSE {0}) :
         LET n == y + yo
             written(q) == { t \in CB_BEG .. (CB_END - 1) : t % 4 = q }
             last(q) == CHOOSE t \in written(q) : \A u \in written(q) : u <= t
             cell(t) == analog[n + (t \div PAL_HRES)][t % PAL_HRES]
         IN  /\ analog' = ComposeLine(analog, y, junk)
             /\ iccf' = [g \in 0 .. 5 |-> [q \in 0 .. 3 |->
                           IF g = n % 6 /\ written(q) # {}
                           THEN << ComposeCell(cell(last(q)), last(q), y, junk).burst >>
                           ELSE iccf[g][q]]]
             /\ src_idx' = [x \in 0 .. (destw - 1) |->
                              SourceIndex(x, w, destw, SourceRow(y, h, desth) * w)]
    /\ y' = y + 1
    /\ pc' = IF y + 1 < desth THEN "lines" ELSE "finish"
    /\ UNCHANGED << ccf, cc_period, black_point, white_point, frame_vars,
                    field_initialized, calls, setup_runs, ran_setup, entry_flag,
                    entry_analog, fresh, same_call, ever_reset, misuse, stale,
                    sample_vars >>

End ==
    /\ pc = "finish"
    /\ \E junk \in JunkSamples :
         ccf' = [g \in 0 .. 5 |-> [q \in 0 .. 3 |->
                   CcfEntry(IF iccf[g][q] = Undef THEN junk ELSE iccf[g][q][1])]]
    /\ cc_period' = 6
    /\ pc' = "idle"
    /\ fresh' = TRUE
    /\ UNCHANGED << analog, black_point, white_point, frame_vars, field_initialized,
                    y, iccf, calls, setup_runs, ran_setup, entry_flag, entry_analog,
                    same_call, ever_reset, misuse, stale, src_idx, sample_vars >>

(***************************************************************************)
(* The caller, between calls.                                              *)
(***************************************************************************)
\* reset of the field buffer together with the latch
CallerReset ==
    /\ pc = "idle"
    /\ analog' = ZeroField
    /\ field_initialized' = 0
    /\ ever_reset' = TRUE
    /\ fresh' = FALSE
    /\ stale' = FALSE
    /\ UNCHANGED << ccf, cc_period, black_point, white_point, frame_vars, local_vars,
                    calls, setup_runs, ran_setup, entry_flag, entry_analog,
                    same_call, misuse, sample_vars >>

\* the latch alone is cleared; the buffer keeps the previous field
CallerInvalidate ==
    /\ pc = "idle"
    /\ field_initialized = 1
    /\ field_initialized' = 0
    /\ ever_reset' = TRUE
    /\ fresh' = FALSE
    /\ UNCHANGED << crt_vars, frame_vars, local_vars, calls, setup_runs, ran_setup,
                    entry_flag, entry_analog, same_call, misuse, stale, sample_vars >>

\* the buffer alone is cleared; the latch stays set
CallerClearAnalog ==
    /\ pc = "idle"
    /\ field_initialized = 1
    /\ analog' = ZeroField
    /\ misuse' = TRUE
    /\ stale' = TRUE
    /\ fresh' = FALSE
    /\ UNCHANGED << ccf, cc_period, black_point, white_point, frame_vars, local_vars,
                    field_initialized, calls, setup_runs, ran_setup, entry_flag,
                    entry_analog, same_call, ever_reset, sample_vars >>

\* a new source frame or hue for the next call
CallerSetFrame ==
    /\ pc = "idle"
    /\ \E f \in Frames :
         /\ << f.w, f.h, f.data, f.hue >> # << w, h, data, hue >>
         /\ w' = f.w
         /\ h' = f.h
         /\ data' = f.data
         /\ hue' = f.hue
    /\ fresh' = FALSE
    /\ UNCHANGED << crt_vars, field_initialized, local_vars, calls, setup_runs,
                    ran_setup, entry_flag, entry_analog, same_call, ever_reset,
                    misuse, stale, sample_vars >>

Next ==
    \/ Begin
    \/ Line
    \/ End
    \/ CallerReset
    \/ CallerInvalidate
    \/ CallerClearAnalog
    \/ CallerSetFrame

Spec == Init /\ [][Next]_vars

(***************************************************************************)
(* The first call alone (setup_field included), from one uniform frame per *)
(* pixel code and one frame per hue offset.                                *)
(***************************************************************************)
InitRange == InitWith(RangeFrames, {0}, {0})

FirstCall == calls = 0 /\ Begin

NextRange ==
    \/ FirstCall
    \/ Line
    \/ End

SpecRange == InitRange /\ [][NextRange]_vars

(***************************************************************************)
(* square_sample on its own, on every pixel code and phase.                *)
(***************************************************************************)
InitSample == InitWith({Frame(4, 3, 0, 0)}, 0 .. MaxCode, 0 .. MaxPhase)

Sample ==
    /\ sres = Undef
    /\ sres' = << square_sample(sp, sphase) >>
    /\ UNCHANGED << crt_vars, frame_vars, field_initialized, local_vars, calls,
                    setup_runs, ran_setup, entry_flag, entry_analog, fresh,
                    same_call, ever_reset, misuse, stale, sp, sphase >>

NextSample == Sample

SpecSample == InitSample /\ [][NextSample]_vars


(***************************************************************************)
(* Properties.                                                             *)
(***************************************************************************)
ActiveLines == PAL_TOP .. (PAL_TOP + PAL_LINES - 1)
BurstCols == CB_BEG .. (CB_BEG + CB_CYCLES * PAL_CB_FREQ - 1)
VideoCols == xo .. (xo + AV_LEN - 1)

\* the state in which a pal_modulate call has just returned
Returned == pc = "idle" /\ fresh

\* the waveform of line n at column t as the field timing is specified
TimingWaveform(n, t) ==
    IF n <= 3 \/ (n >= 7 /\ n <= 9)
    THEN IF t < (4 * PAL_HRES) \div 100
            \/ (t >= (50 * PAL_HRES) \div 100 /\ t < (54 * PAL_HRES) \div 100)
         THEN SYNC_LEVEL ELSE BLANK_LEVEL
    ELSE IF n >= 4 /\ n <= 6
    THEN IF (t >= (46 * PAL_HRES) \div 100 /\ t < (50 * PAL_HRES) \div 100)
            \/ t >= (96 * PAL_HRES) \div 100
         THEN BLANK_LEVEL ELSE SYNC_LEVEL
    ELSE IF t >= SYNC_BEG /\ t < BW_BEG THEN SYNC_LEVEL ELSE BLANK_LEVEL

\* C1: after a complete pal_modulate call at the default black and white
\* points, every sample of the field lies in [SYNC_LEVEL, WHITE_LEVEL], for
\* every pixel code and every hue offset.
C1_SamplesInRange ==
    (pc = "idle" /\ calls >= 1) =>
        \A n \in Lines : \A t \in Cols :
            analog[n][t] >= SYNC_LEVEL /\ analog[n][t] <= WHITE_LEVEL

\* a returned call whose field holds both extremes and a negative burst sample
C1_Witness ==
    /\ pc = "idle" /\ calls >= 1
    /\ \E n \in ActiveLines : \E t \in VideoCols : analog[n][t] = WHITE_LEVEL
    /\ \E n \in Lines : \E t \in Cols : analog[n][t] = SYNC_LEVEL
    /\ \E n \in ActiveLines : \E t \in BurstCols : analog[n][t] < 0

\* C2: a second call with the same settings and the latch already set leaves
\* every sample outside the active-video window of the active lines as the
\* first call left it.
C2_SecondCallKeepsRest ==
    (Returned /\ same_call /\ entry_flag = 1) =>
        \A n \in Lines : \A t \in Cols :
            ~(n \in ActiveLines /\ t \in VideoCols) =>
                analog[n][t] = entry_analog[n][t]

\* the return of a second call made right after the first, on a field with a
\* burst in it
C2_Witness ==
    /\ Returned /\ same_call /\ entry_flag = 1 /\ calls = 2
    /\ \E n \in ActiveLines : \E t \in BurstCols : analog[n][t] # BLANK_LEVEL

\* C3: field_initialized is a one-shot latch: setup_field runs in a call iff
\* the latch was clear on entry, the latch is set from entry to return, and
\* without a caller reset setup_field runs exactly once, in the first call.
C3_Latch ==
    /\ (pc # "idle" => field_initialized = 1 /\ (ran_setup <=> entry_flag = 0))
    /\ (Returned => field_initialized = 1)
    /\ (~ever_reset /\ calls >= 1 => setup_runs = 1)
    /\ (~ever_reset /\ calls = 0 => setup_runs = 0)

\* the return of a second call that skipped setup_field
C3_Witness ==
    Returned /\ calls = 2 /\ ~ever_reset /\ setup_runs = 1 /\ ~ran_setup

\* C4: after a call, ccf[g][q] is the burst sample << 7 of every column t
\* with t % 4 = q of every active line n with n % 6 = g, and each of the 24
\* entries comes from a written sample.
C4_Calibration ==
    Returned =>
        /\ \A n \in ActiveLines : \A t \in BurstCols :
               ccf[n % 6][t % 4] = analog[n][t] * 128
        /\ \A g \in 0 .. 5 : \A q \in 0 .. 3 :
               /\ iccf[g][q] # Undef
               /\ \E n \in ActiveLines : \E t \in BurstCols : n % 6 = g /\ t % 4 = q

\* a returned call whose table holds entries of both signs
C4_Witness ==
    /\ Returned
    /\ \E g \in 0 .. 5 : \E q \in 0 .. 3 : ccf[g][q] < 0
    /\ \E g \in 0 .. 5 : \E q \in 0 .. 3 : ccf[g][q] > 0

AllZeroSource == \A i \in DOMAIN data : data[i] = 0
DefaultPoints == black_point = DefaultBlackPoint /\ white_point = DefaultWhitePoint

\* C5 as stated: an all-zero source at default settings gives active-video
\* samples that are all at WHITE_LEVEL.
C5_AllZeroIsWhite ==
    (Returned /\ AllZeroSource /\ DefaultPoints) =>
        \A n \in ActiveLines : \A t \in VideoCols : analog[n][t] = WHITE_LEVEL

\* C5 amended: an all-zero source at default settings gives active-video
\* samples that all hold the same value, the level of pixel code 0x00,
\* ((BLACK_LEVEL + 4 * 43581) * 100 / 110) >> 12 = 38, below WHITE_LEVEL.
C5_AllZeroIsUniform ==
    (Returned /\ AllZeroSource /\ DefaultPoints) =>
        \A n \in ActiveLines : \A t \in VideoCols :
            /\ analog[n][t] = analog[PAL_TOP][xo]
            /\ analog[n][t] = 38
            /\ analog[n][t] < WHITE_LEVEL

\* a call on the all-zero frame has returned
C5_Witness ==
    Returned /\ AllZeroSource /\ DefaultPoints /\ calls >= 1 /\ analog[PAL_TOP][xo] # 0

\* C6: after setup_field, every sample of every line is SYNC_LEVEL or
\* BLANK_LEVEL as its line category prescribes, whatever the field held.
C6_FieldTiming ==
    (pc = "lines" /\ y = 0 /\ ran_setup) =>
        \A n \in Lines : \A t \in Cols : analog[n][t] = TimingWaveform(n, t)

\* setup_field has just run over a field that held video and burst samples
C6_Witness ==
    /\ pc = "lines" /\ y = 0 /\ ran_setup
    /\ \E n \in ActiveLines : \E t \in VideoCols :
           entry_analog[n][t] \notin {SYNC_LEVEL, BLANK_LEVEL}
    /\ \E n \in ActiveLines : \E t \in BurstCols :
           entry_analog[n][t] \notin {SYNC_LEVEL, BLANK_LEVEL}

\* C7: destination column x of destination line y reads the source pixel
\* floor(x * w / destw) + floor(y * h / desth) * w; the column is in [0, w),
\* the row in [0, h), the index in [0, w * h), so the clamp of sy changes
\* nothing; 282 samples from a 256-wide source map column 140 to column 127.
C7_SourceIndex ==
    /\ (pc \in {"lines", "finish"} /\ y >= 1) =>
          \A x \in 0 .. (destw - 1) :
              LET col == (x * w) \div destw
                  row == ((y - 1) * h) \div desth
              IN  /\ src_idx[x] = col + row * w
                  /\ col >= 0 /\ col < w
                  /\ row >= 0 /\ row < h
                  /\ src_idx[x] >= 0 /\ src_idx[x] < w * h
                  /\ src_idx[x] \in DOMAIN data
    /\ SourceIndex(140, 256, 282, 0) = 127

\* the last line of a source taller than the active range has been read
C7_Witness ==
    pc = "finish" /\ h > desth /\ src_idx[destw - 1] > w * (h - 4)

\* C8: square_sample returns 0 for every pixel code whose hue nibble is 0x0E
\* or 0x0F, at every phase, whatever the emphasis and luma bits.
C8_BlackHues ==
    (sres # Undef /\ sp % 16 >= 14) => sres[1] = 0

\* hue 0x0F with all emphasis bits and luma 3 has been sampled
C8_Witness ==
    sres = << 0 >> /\ sp % 16 = 15 /\ (sp \div 64) % 8 = 7 /\ (sp \div 16) % 4 = 3

\* C9: hue 0x00 reads the upper half of the voltage table and hue 0x0D the
\* lower half at every phase; hues 0x01..0x0C read the upper half exactly
\* when (hue + phase) mod 12 < 6.
C9_ForcedPolarity ==
    (sres # Undef /\ sp % 16 < 14) =>
        LET hu == sp % 16
            luma == (sp \div 16) % 4
            Upper == {IRE[8 + luma + 1], IRE[12 + luma + 1]}
            Lower == {IRE[luma + 1], IRE[4 + luma + 1]}
        IN  /\ sres[1] \in Upper \cup Lower
            /\ hu = 0 => sres[1] \in Upper
            /\ hu = 13 => sres[1] \in Lower
            /\ (hu >= 1 /\ hu <= 12) =>
                   (sres[1] \in Upper <=> (hu + sphase) % 12 < 6)

\* hue 0x0D sampled at a phase where the computed polarity is 1
C9_Witness ==
    sres # Undef /\ sp % 16 = 13 /\ (13 + sphase) % 12 < 6 /\ (sp \div 64) % 8 = 7

\* the cells of the field that the line composer rewrites
Rewritten(n, t) ==
    /\ n \in ActiveLines
    /\ \/ (t >= BW_BEG /\ t < CB_BEG)
       \/ t \in BurstCols
       \/ t \in VideoCols

\* C10: when every reset of the field buffer also clears the latch, the sync
\* skeleton is present at the return of every call, on every cell the line
\* composer does not rewrite; a call entered with the latch set does not
\* restore the skeleton of a cleared buffer.
C10_SkeletonPresent ==
    /\ (Returned /\ ~misuse) =>
          \A n \in Lines : \A t \in Cols :
              ~Rewritten(n, t) => analog[n][t] = TimingWaveform(n, t)
    /\ (Returned /\ stale) =>
          \A n \in Lines \ ActiveLines : \A t \in Cols : analog[n][t] = 0

\* a call has returned after a caller reset between two calls
C10_Witness ==
    Returned /\ ~misuse /\ ever_reset /\ calls = 2 /\ setup_runs = 2 /\ entry_flag = 0

=============================================================================
